---- MODULE Spec2Model ----
(***************************************************************************)
(* Verification model of the Pokemon card scanner:                         *)
(*   normalizeName, findMatchingCard, levenshteinDistance (utils/sheets.ts) *)
(*   findMissingPokemonInImage            (utils/storage.ts)              *)
(*   the App component: its state, handlers and awaited calls (App.tsx)   *)
(*                                                                         *)
(* A JavaScript string is a sequence of one-character strings.  A number  *)
(* produced by a division is the fraction [num, den]; den = 0 stands for  *)
(* NaN (0 / 0), every comparison with which is false.                     *)
(***************************************************************************)
EXTENDS Integers, Sequences, FiniteSets, TLC

VARIABLES
  name,            \* normalizeName: the argument
  baseName,        \* the part of name before an appended qualifier
  normalized,      \* normalizeName(name)
  normalizedBase,  \* normalizeName(baseName)
  renormalized,    \* normalizeName(normalized)
  normDone,        \* which of the three calls have returned
  detectedName,    \* findMatchingCard: first argument
  missingList,     \* findMatchingCard / findMissingPokemonInImage: the list
  matchResult,     \* findMatchingCard: returned {match, confidence}
  matchDone,       \* findMatchingCard has returned
  response,        \* findMissingPokemonInImage: what the API answered
  scanOutcome,     \* findMissingPokemonInImage: [threw, value]
  scanDone,        \* findMissingPokemonInImage has settled
  strA,            \* levenshteinDistance: argument a
  strB,            \* levenshteinDistance: argument b
  levResult,       \* levenshteinDistance: the returned number
  levDone,         \* levenshteinDistance has returned
  activeTab,       \* App: the tab shown
  settings,        \* App: [sheetUrl, visionApiKey]
  capturedImage,   \* App: the selected image (a data URL) or null
  scanResults,     \* App: the list of ScanResult shown
  isLoading,       \* App: a scan or a load is running
  loadingMessage,  \* App: the text of the loading overlay
  statusMessage,   \* App: {type, text} or null
  storage,         \* localStorage: the saved settings and missing list
  readers,         \* files whose FileReader has not fired onload yet
  calls,           \* collaborator calls awaited by a handler
  resultsImage,    \* the image argument of the call that produced scanResults
  lastEvent        \* the handler or callback that ran last

vars == <<name, baseName, normalized, normalizedBase, renormalized, normDone,
          detectedName, missingList, matchResult, matchDone,
          response, scanOutcome, scanDone,
          strA, strB, levResult, levDone,
          activeTab, settings, capturedImage, scanResults, isLoading,
          loadingMessage, statusMessage, storage, readers, calls,
          resultsImage, lastEvent>>

normVars  == <<name, baseName, normalized, normalizedBase, renormalized, normDone>>
matchVars == <<detectedName, missingList, matchResult, matchDone>>
scanVars  == <<response, scanOutcome, scanDone>>
levVars   == <<strA, strB, levResult, levDone>>
\* the App's state, but for missingList
appVars   == <<activeTab, settings, capturedImage, scanResults, isLoading,
               loadingMessage, statusMessage, storage, readers, calls,
               resultsImage, lastEvent>>
\* the state of the four function programs, but for missingList
functionVars == <<normVars, detectedName, matchResult, matchDone, scanVars, levVars>>

(***************************************************************************)
(* Bounds of the model.                                                    *)
(***************************************************************************)
MaxNameLen == 3     \* longest enumerated argument of normalizeName
MaxList    == 2     \* longest missing list
MaxLevLen  == 3     \* longest enumerated argument of levenshteinDistance
MaxFound   == 2     \* longest array answered by the API

(***************************************************************************)
(* Strings                                                                 *)
(***************************************************************************)
EmptyString == << >>

UpperLetters == <<"A","B","C","D","E","F","G","H","I","J","K","L","M",
                  "N","O","P","Q","R","S","T","U","V","W","X","Y","Z">>
LowerLetters == <<"a","b","c","d","e","f","g","h","i","j","k","l","m",
                  "n","o","p","q","r","s","t","u","v","w","x","y","z">>
DigitChars   == {"0","1","2","3","4","5","6","7","8","9"}
LowerAlnum   == {LowerLetters[i] : i \in 1..26} \cup DigitChars

\* \s of the regular expressions and the white space String.trim removes
\* (the model's alphabet holds the space as its only white space).
Whitespace == {" "}

toLowerCaseChar(c) ==
  IF \E i \in 1..26 : UpperLetters[i] = c
  THEN LowerLetters[CHOOSE i \in 1..26 : UpperLetters[i] = c]
  ELSE c

toLowerCase(s) == [i \in 1..Len(s) |-> toLowerCaseChar(s[i])]

RECURSIVE trimStart(_)
trimStart(s) ==
  IF s # << >> /\ Head(s) \in Whitespace THEN trimStart(Tail(s)) ELSE s

RECURSIVE trimEnd(_)
trimEnd(s) ==
  IF s # << >> /\ s[Len(s)] \in Whitespace
  THEN trimEnd(SubSeq(s, 1, Len(s) - 1))
  ELSE s

trim(s) == trimEnd(trimStart(s))

\* t occurs in s starting at index i
startsWithAt(s, i, t) ==
  /\ i >= 1
  /\ i + Len(t) - 1 <= Len(s)
  /\ \A k \in 1..Len(t) : s[i + k - 1] = t[k]

\* String.prototype.includes
includes(s, t) == \E i \in 1..(Len(s) + 1) : startsWithAt(s, i, t)

Min2(a, b) == IF a <= b THEN a ELSE b
Max2(a, b) == IF a >= b THEN a ELSE b

(***************************************************************************)
(* normalizeName                                                           *)
(***************************************************************************)
\* The literal alternatives of the qualifier pattern in the order written;
\* lv\.?\s*x, the eighth alternative, is matched by lvxEnd.
QualifierAlternatives ==
  << <<"e","x">>, <<"g","x">>, <<"v">>, <<"v","m","a","x">>,
     <<"v","s","t","a","r">>, <<"v","-","u","n","i","o","n">>,
     <<"b","r","e","a","k">>, <<"l","v","x">>,
     <<"d","e","l","t","a">>, <<"s","h","i","n","i","n","g">>,
     <<"r","a","d","i","a","n","t">>, <<"g","a","l","a","r","i","a","n">>,
     <<"a","l","o","l","a","n">>, <<"h","i","s","u","i","a","n">>,
     <<"p","a","l","d","e","a","n">> >>
LvxAlternative == 8

\* \s* is greedy: the index of the first character at or after i that is
\* not white space (Len(s) + 1 when there is none).
RECURSIVE skipWhitespace(_, _)
skipWhitespace(s, i) ==
  IF i <= Len(s) /\ s[i] \in Whitespace THEN skipWhitespace(s, i + 1) ELSE i

\* lv\.?\s*x at index i: the index after the match, 0 when it fails.
lvxEnd(s, i) ==
  IF ~startsWithAt(s, i, <<"l","v">>) THEN 0
  ELSE LET afterDot == IF i + 2 <= Len(s) /\ s[i + 2] = "." THEN i + 3 ELSE i + 2
           atX      == skipWhitespace(s, afterDot)
       IN  IF atX <= Len(s) /\ s[atX] = "x" THEN atX + 1 ELSE 0

\* Alternative k at index i: the index after the match, 0 when it fails.
alternativeEnd(s, i, k) ==
  IF k = LvxAlternative THEN lvxEnd(s, i)
  ELSE IF startsWithAt(s, i, QualifierAlternatives[k])
       THEN i + Len(QualifierAlternatives[k])
       ELSE 0

\* The alternation is ordered: the first alternative that matches at i is
\* taken (the trailing \s* never fails, so no later alternative is tried).
firstAlternativeEnd(s, i) ==
  LET hits == {k \in 1..Len(QualifierAlternatives) : alternativeEnd(s, i, k) # 0}
  IN  IF hits = {} THEN 0
      ELSE alternativeEnd(s, i, CHOOSE k \in hits : \A h \in hits : k <= h)

\* One attempt of /\s*(ex|gx|v|...)\s*/ at index i: the index after the
\* match, 0 when there is none.  No alternative starts with white space, so
\* giving back white space of the leading \s* never helps.
qualifierMatchEnd(s, i) ==
  LET e == firstAlternativeEnd(s, skipWhitespace(s, i))
  IN  IF e = 0 THEN 0 ELSE skipWhitespace(s, e)

\* .replace(/\s*(...)\s*/gi, ''): leftmost matches, scanning on after each.
RECURSIVE removeQualifiersFrom(_, _)
removeQualifiersFrom(s, i) ==
  IF i > Len(s) THEN << >>
  ELSE LET e == qualifierMatchEnd(s, i)
       IN  IF e # 0 THEN removeQualifiersFrom(s, e)
           ELSE <<s[i]>> \o removeQualifiersFrom(s, i + 1)

removeQualifiers(s) == removeQualifiersFrom(s, 1)

\* .replace(/[^a-z0-9]/g, '')
removeSpecialCharacters(s) == SelectSeq(s, LAMBDA c : c \in LowerAlnum)

\* .replace(/0/g, 'o').replace(/1/g, 'l').replace(/5/g, 's')
\* (variant of fixOcrChar: the replacement of 5 left out)
fixOcrCharKeepsFive(c) ==
  IF c = "0" THEN "o" ELSE IF c = "1" THEN "l" ELSE c

fixOcrChar(c) ==
  IF c = "0" THEN "o" ELSE IF c = "1" THEN "l" ELSE IF c = "5" THEN "s" ELSE c

fixOcrMistakes(s) == [i \in 1..Len(s) |-> fixOcrChar(s[i])]

normalizeName(s) ==
  fixOcrMistakes(removeSpecialCharacters(removeQualifiers(trim(toLowerCase(s)))))

(***************************************************************************)
(* levenshteinDistance                                                     *)
(***************************************************************************)
Min3(x, y, z) == Min2(x, Min2(y, z))

\* (variant of levenshteinRow: no substitution step, a changed character costs a removal and
\* an insertion)
RECURSIVE levenshteinRowNoSubstitution(_, _, _, _, _)
levenshteinRowNoSubstitution(a, b, i, prev, cur) ==
  LET j == Len(cur)
  IN  IF j > Len(a) THEN cur
      ELSE levenshteinRowNoSubstitution(a, b, i, prev,
             Append(cur, IF b[i] = a[j]
                         THEN prev[j]
                         ELSE Min2(cur[j] + 1, prev[j + 1] + 1)))

\* Row i of the matrix (i >= 1) from row i - 1; a row is the sequence
\* <<matrix[i][0], ..., matrix[i][a.length]>>, so column j is element j + 1.
RECURSIVE levenshteinRow(_, _, _, _, _)
levenshteinRow(a, b, i, prev, cur) ==
  LET j == Len(cur)
  IN  IF j > Len(a) THEN cur
      ELSE levenshteinRow(a, b, i, prev,
             Append(cur, IF b[i] = a[j]
                         THEN prev[j]
                         ELSE Min3(prev[j] + 1, cur[j] + 1, prev[j + 1] + 1)))

RECURSIVE levenshteinRows(_, _, _, _)
levenshteinRows(a, b, i, prev) ==
  IF i > Len(b) THEN prev
  ELSE levenshteinRows(a, b, i + 1, levenshteinRow(a, b, i, prev, <<i>>))

levenshteinDistance(a, b) ==
  levenshteinRows(a, b, 1, [j \in 1..(Len(a) + 1) |-> j - 1])[Len(a) + 1]

(***************************************************************************)
(* findMatchingCard                                                        *)
(***************************************************************************)
\* match: string | null.  null is << >>, a card is the one-element <<card>>.
Null == << >>
Card(c) == <<c>>

Fraction(n, d) == [num |-> n, den |-> d]
Zero == Fraction(0, 1)
One  == Fraction(1, 1)
PartialThresholdLow == Fraction(2, 5)  \* (variant of PartialThreshold: 0.4)
PartialThreshold == Fraction(7, 10)    \* similarity > 0.7
FuzzyThreshold   == Fraction(3, 4)     \* similarity > 0.75

\* x > y on numbers; false when either is NaN (den = 0).  Denominators are
\* string lengths, never negative.
greaterThan(x, y) ==
  /\ x.den # 0
  /\ y.den # 0
  /\ x.num * y.den > y.num * x.den

MatchResult(m, c) == [match |-> m, confidence |-> c]
NotReturned == [returned |-> FALSE, value |-> MatchResult(Null, Zero)]
Returned(r) == [returned |-> TRUE, value |-> r]

\* Mutant of directMatch: the last entry that matches, not the first.
directMatchLast(normalizedDetected, list, i) ==
  LET hits == {k \in i..Len(list) : normalizeName(list[k]) = normalizedDetected}
  IN  IF hits = {} THEN NotReturned
      ELSE Returned(MatchResult(
             Card(list[CHOOSE k \in hits : \A h \in hits : h <= k]), One))

\* Mutant of directMatch: the normalized form of the card is returned.
directMatchNormalized(normalizedDetected, list, i) ==
  LET hits == {k \in i..Len(list) : normalizeName(list[k]) = normalizedDetected}
  IN  IF hits = {} THEN NotReturned
      ELSE Returned(MatchResult(
             Card(normalizeName(list[CHOOSE k \in hits : \A h \in hits : k <= h])), One))

\* (variant: the first loop skipped for a detected name that normalizes to
\* the empty string)
directMatchNonEmpty(normalizedDetected, list, i) ==
  LET hits == {k \in i..Len(list) : normalizeName(list[k]) = normalizedDetected}
  IN  IF hits = {} \/ normalizedDetected = EmptyString THEN NotReturned
      ELSE Returned(MatchResult(
             Card(list[CHOOSE k \in hits : \A h \in hits : k <= h]), One))

\* Direct match: the first loop, from card i on.
RECURSIVE directMatch(_, _, _)
directMatch(normalizedDetected, list, i) ==
  IF i > Len(list) THEN NotReturned
  ELSE IF normalizeName(list[i]) = normalizedDetected
       THEN Returned(MatchResult(Card(list[i]), One))
       ELSE directMatch(normalizedDetected, list, i + 1)

partialSimilarity(normalizedDetected, normalizedCard) ==
  Fraction(Min2(Len(normalizedDetected), Len(normalizedCard)),
           Max2(Len(normalizedDetected), Len(normalizedCard)))

\* Mutant of partialMatch: similarity >= 0.7 qualifies.
RECURSIVE partialMatchAtLeast(_, _, _)
partialMatchAtLeast(normalizedDetected, list, i) ==
  IF i > Len(list) THEN NotReturned
  ELSE LET normalizedCard == normalizeName(list[i])
           similarity     == partialSimilarity(normalizedDetected, normalizedCard)
       IN  IF /\ \/ includes(normalizedCard, normalizedDetected)
                 \/ includes(normalizedDetected, normalizedCard)
              /\ ~greaterThan(PartialThreshold, similarity)
              /\ similarity.den # 0
           THEN Returned(MatchResult(Card(list[i]), similarity))
           ELSE partialMatchAtLeast(normalizedDetected, list, i + 1)

\* Partial match: the second loop, from card i on.
RECURSIVE partialMatch(_, _, _)
partialMatch(normalizedDetected, list, i) ==
  IF i > Len(list) THEN NotReturned
  ELSE LET normalizedCard == normalizeName(list[i])
           similarity     == partialSimilarity(normalizedDetected, normalizedCard)
       IN  IF /\ \/ includes(normalizedCard, normalizedDetected)
                 \/ includes(normalizedDetected, normalizedCard)
              /\ greaterThan(similarity, PartialThreshold)
           THEN Returned(MatchResult(Card(list[i]), similarity))
           ELSE partialMatch(normalizedDetected, list, i + 1)

fuzzySimilarity(normalizedDetected, normalizedCard) ==
  LET distance == levenshteinDistance(normalizedDetected, normalizedCard)
      maxLen   == Max2(Len(normalizedDetected), Len(normalizedCard))
  IN  Fraction(maxLen - distance, maxLen)

\* Mutant of fuzzyImproves: the 0.75 threshold is not applied.
fuzzyImprovesAnyScore(similarity, bestScore) ==
  greaterThan(similarity, bestScore)

\* Mutant of fuzzyImproves: an equal score replaces the best so far.
fuzzyImprovesOrTies(similarity, bestScore) ==
  /\ similarity.den # 0
  /\ ~greaterThan(bestScore, similarity)
  /\ greaterThan(similarity, FuzzyThreshold)

\* The test of the third loop that replaces the best match so far.
fuzzyImproves(similarity, bestScore) ==
  greaterThan(similarity, bestScore) /\ greaterThan(similarity, FuzzyThreshold)

\* Fuzzy match: the third loop, from card i on, with the best so far.
RECURSIVE fuzzyMatch(_, _, _, _, _)
fuzzyMatch(normalizedDetected, list, i, bestMatch, bestScore) ==
  IF i > Len(list) THEN MatchResult(bestMatch, bestScore)
  ELSE LET similarity == fuzzySimilarity(normalizedDetected, normalizeName(list[i]))
       IN  IF fuzzyImproves(similarity, bestScore)
           THEN fuzzyMatch(normalizedDetected, list, i + 1, Card(list[i]), similarity)
           ELSE fuzzyMatch(normalizedDetected, list, i + 1, bestMatch, bestScore)

\* Mutant of findMatchingCard: one loop that tries the three tests on each
\* card in turn, so that an earlier card's partial match ends the search.
RECURSIVE matchPerEntry(_, _, _, _, _)
matchPerEntry(normalizedDetected, list, i, bestMatch, bestScore) ==
  IF i > Len(list) THEN MatchResult(bestMatch, bestScore)
  ELSE LET normalizedCard == normalizeName(list[i])
           partial == partialSimilarity(normalizedDetected, normalizedCard)
           fuzzy   == fuzzySimilarity(normalizedDetected, normalizedCard)
       IN  IF normalizedCard = normalizedDetected
           THEN MatchResult(Card(list[i]), One)
           ELSE IF /\ \/ includes(normalizedCard, normalizedDetected)
                      \/ includes(normalizedDetected, normalizedCard)
                   /\ greaterThan(partial, PartialThreshold)
           THEN MatchResult(Card(list[i]), partial)
           ELSE IF greaterThan(fuzzy, bestScore) /\ greaterThan(fuzzy, FuzzyThreshold)
           THEN matchPerEntry(normalizedDetected, list, i + 1, Card(list[i]), fuzzy)
           ELSE matchPerEntry(normalizedDetected, list, i + 1, bestMatch, bestScore)

findMatchingCardPerEntry(detected, list) ==
  matchPerEntry(normalizeName(detected), list, 1, Null, Zero)

findMatchingCard(detected, list) ==
  LET normalizedDetected == normalizeName(detected)
      direct  == directMatch(normalizedDetected, list, 1)
      partial == partialMatch(normalizedDetected, list, 1)
  IN  IF direct.returned THEN direct.value
      ELSE IF partial.returned THEN partial.value
      ELSE fuzzyMatch(normalizedDetected, list, 1, Null, Zero)

(***************************************************************************)
(* findMissingPokemonInImage                                               *)
(***************************************************************************)
\* Mutant of namesCorrespond: the names are compared after normalizeName.
namesCorrespondNormalized(missing, found) ==
  LET m == normalizeName(missing)
      n == normalizeName(found)
  IN  m = n \/ includes(m, n) \/ includes(n, m)

\* The test of the filter and of the find: equal, or either contains the
\* other, after toLowerCase.
namesCorrespond(missing, found) ==
  LET m == toLowerCase(missing)
      n == toLowerCase(found)
  IN  m = n \/ includes(m, n) \/ includes(n, m)

\* foundPokemon.filter(name => missingList.some(...))
validNames(foundPokemon, list) ==
  SelectSeq(foundPokemon,
            LAMBDA found : \E i \in 1..Len(list) : namesCorrespond(list[i], found))

\* missingList.find(...): the first element that passes, undefined (Null)
\* when none does.
RECURSIVE findCorresponding(_, _, _)
findCorresponding(found, list, i) ==
  IF i > Len(list) THEN Null
  ELSE IF namesCorrespond(list[i], found) THEN Card(list[i])
  ELSE findCorresponding(found, list, i + 1)

\* match || name: undefined and the empty string are falsy.
originalName(found, list) ==
  LET match == findCorresponding(found, list, 1)
  IN  IF match = Null \/ match = Card(EmptyString) THEN found ELSE match[1]

\* validNames.map(name => match || name)
reconcileBatch(foundPokemon, list) ==
  LET valid == validNames(foundPokemon, list)
  IN  [k \in 1..Len(valid) |-> originalName(valid[k], list)]

\* The catch branch: the missing names the text mentions, in list order.
extractManually(textResponse, list) ==
  SelectSeq(list, LAMBDA pokemon : includes(toLowerCase(textResponse), toLowerCase(pokemon)))

\* What the API call came to.  kind is
\*   "rejected"   fetch failed               "httpError"  response.ok is false
\*   "noText"     no text in the candidate   "array"      the text parses to the array names
\*   "notArray"   the text parses to a value that is no array
\*   "unparsable" JSON.parse threw on text
Answer(kind, names, text) == [kind |-> kind, names |-> names, text |-> text]

Settled(threw, value) == [threw |-> threw, value |-> value]

findMissingPokemonInImage(answer, list) ==
  CASE answer.kind \in {"rejected", "httpError"} -> Settled(TRUE, << >>)
    [] answer.kind = "noText"     -> Settled(FALSE, << >>)
    [] answer.kind = "array"      -> Settled(FALSE, reconcileBatch(answer.names, list))
    [] answer.kind = "notArray"   -> Settled(FALSE, << >>)
    [] answer.kind = "unparsable" -> Settled(FALSE, extractManually(answer.text, list))

\* The divisors of the divisions one call evaluates.  The second loop
\* divides only for a card that contains or is contained in the detected
\* name, and stops at its return ...
RECURSIVE partialDivisors(_, _, _)
partialDivisors(normalizedDetected, list, i) ==
  IF i > Len(list) THEN {}
  ELSE LET normalizedCard == normalizeName(list[i])
           similarity     == partialSimilarity(normalizedDetected, normalizedCard)
       IN  IF \/ includes(normalizedCard, normalizedDetected)
              \/ includes(normalizedDetected, normalizedCard)
           THEN {similarity.den}
                \cup (IF greaterThan(similarity, PartialThreshold) THEN {}
                      ELSE partialDivisors(normalizedDetected, list, i + 1))
           ELSE partialDivisors(normalizedDetected, list, i + 1)

\* ... the third loop divides for every card ...
fuzzyDivisors(normalizedDetected, list) ==
  {fuzzySimilarity(normalizedDetected, normalizeName(list[k])).den : k \in 1..Len(list)}

\* ... and a loop is entered only if the loops before it did not return.
divisors(detected, list) ==
  LET normalizedDetected == normalizeName(detected)
  IN  IF directMatch(normalizedDetected, list, 1).returned THEN {}
      ELSE partialDivisors(normalizedDetected, list, 1)
           \cup (IF partialMatch(normalizedDetected, list, 1).returned THEN {}
                 ELSE fuzzyDivisors(normalizedDetected, list))

(***************************************************************************)
(* App (App.tsx): the values of the component's state, and the tests of    *)
(* its handlers and buttons                                                *)
(***************************************************************************)
\* AppSettings; sheetTab and sheetColumn only parametrize the fetch.  (The
\* search box of the list tab, searchQuery, filters what is displayed and is
\* read by no handler; it is left out.)
Settings(sheetUrl, visionApiKey) ==
  [sheetUrl |-> sheetUrl, visionApiKey |-> visionApiKey]
\* what the two effects save
Storage(savedSettings, savedList) ==
  [settings |-> savedSettings, missingList |-> savedList]
\* the result of readAsDataURL
DataUrl(file) == <<file>>
ScanResult(found) == [name |-> found, status |-> "need", confidence |-> One]
\* a status message; count is the number a text shows (0 if it shows none)
StatusMessage(type, text, count) ==
  <<[type |-> type, text |-> text, count |-> count]>>
\* a collaborator call with the arguments it was given; outcome is Null
\* until its promise settles, then <<Settled(threw, value)>>
Call(kind, image, list, credential) ==
  [kind |-> kind, image |-> image, list |-> list, credential |-> credential,
   outcome |-> Null]

\* (variant of scanButtonDisabled: enabled while loading)
scanButtonDisabledWithoutImage(image, loading) == image = Null
scanButtonDisabled(image, loading) == image = Null \/ loading
loadButtonDisabled(sheetUrl, loading) == sheetUrl = EmptyString \/ loading

\* The three tests at the head of handleScan: the message of the first that
\* fails and the tab it leaves shown, or no refusal.
Refusal(text, tab) == [refused |-> TRUE, text |-> text, tab |-> tab]
NoRefusal(tab) == [refused |-> FALSE, text |-> "", tab |-> tab]
\* (variant of scanRefusal: the missing list is not tested)
scanRefusalIgnoresList(image, visionApiKey, list, tab) ==
  IF image = Null
  THEN Refusal("Please capture or select an image first", tab)
  ELSE IF visionApiKey = EmptyString
  THEN Refusal("Please enter your Gemini API key in Settings", "settings")
  ELSE NoRefusal(tab)

scanRefusal(image, visionApiKey, list, tab) ==
  IF image = Null
  THEN Refusal("Please capture or select an image first", tab)
  ELSE IF visionApiKey = EmptyString
  THEN Refusal("Please enter your Gemini API key in Settings", "settings")
  ELSE IF list = << >>
  THEN Refusal("Please load your missing list from Google Sheets first", "settings")
  ELSE NoRefusal(tab)

\* (variant of loadingAfterSettle: reset at the end of try, not in finally)
loadingAfterSuccessOnly(threw, loading) == threw /\ loading
\* isLoading after the finally block of handleScan and handleLoadSheet
loadingAfterSettle(threw, loading) == FALSE

RemoveAt(seq, k) == SubSeq(seq, 1, k - 1) \o SubSeq(seq, k + 1, Len(seq))

(***************************************************************************)
(* Inputs                                                                  *)
(***************************************************************************)
\* All sequences over S of length at most n
SeqsUpTo(S, n) == UNION {[1..k -> S] : k \in 0..n}

Space == <<" ">>

\* normalizeName: every string over NameAlphabet up to MaxNameLen, ...
NameAlphabet == {"e", "x", "v", " ", "X", "5"}
ShortNames == SeqsUpTo(NameAlphabet, MaxNameLen)

\* ... inputs whose confusable digit spells a qualifier, ...
DigitNames == { <<"5","h","i","n","i","n","g">>, <<"d","e","1","t","a">>,
                <<"a","1","0","1","a","n">> }

\* ... and a base name followed by a space and a qualifier token.
QualifierTokens ==
  { <<"e","x">>, <<"g","x">>, <<"v">>, <<"v","m","a","x">>,
    <<"v","s","t","a","r">>, <<"v","-","u","n","i","o","n">>,
    <<"b","r","e","a","k">>, <<"l","v"," ","x">>,
    <<"d","e","l","t","a">>, <<"s","h","i","n","i","n","g">>,
    <<"r","a","d","i","a","n","t">>, <<"g","a","l","a","r","i","a","n">>,
    <<"a","l","o","l","a","n">>, <<"h","i","s","u","i","a","n">>,
    <<"p","a","l","d","e","a","n">> }
WrittenTokens == QualifierTokens \cup { <<"V","M","A","X">>, <<"G","X">> }

Pikachu == <<"P","i","k","a","c","h","u">>
pikachu == <<"p","i","k","a","c","h","u">>
Mew     == <<"M","e","w">>
Mewtwo  == <<"M","e","w","t","w","o">>
Eevee   == <<"E","e","v","e","e">>
BaseNames == { pikachu, Mew, Eevee, EmptyString }
WrittenBases == BaseNames \cup { Pikachu }

\* findMatchingCard: a detected name is matched against lists drawn from the
\* cards of its family: near and exact variants of the names it is given.
Raichu    == <<"R","a","i","c","h","u">>
Charizard == <<"C","h","a","r","i","z","a","r","d">>
MatchFamilies ==
  { [ detected |-> { <<"a","b","c","d">>, <<"a","b","c","d","e">> },
      cards    |-> { <<"a","b","c">>, <<"a","b","c","d">>, <<"A","B","C","D">>,
                     <<"a","b","z","c","d">>, <<"a","b","z","d">>,
                     <<"a","b","c","d","e","f">>, <<"a","b","z","d","e">>,
                     <<"a","b","c","z","e">>, <<"a","b","z","c","d","e">> } ],
    [ detected |-> { <<"a","b","c","d","e","f","g">> },
      cards    |-> { <<"a","b","c","d","e","f","g","h","i","j">>,
                     <<"a","b","c","d","e","f">>, <<"a","b","c","d">> } ],
    [ detected |-> { Pikachu, Pikachu \o Space \o <<"V">>, EmptyString,
                     <<"C","h","a","r">> },
      cards    |-> { Pikachu, pikachu, <<"E","X">>, Charizard, Raichu, Eevee } ] }

\* levenshteinDistance: every string over LevAlphabet up to MaxLevLen, and
\* the two words of the documented example.
LevAlphabet == {"a", "b"}
Kitten  == <<"k","i","t","t","e","n">>
Sitting == <<"s","i","t","t","i","n","g">>
LevStrings == SeqsUpTo(LevAlphabet, MaxLevLen) \cup {Kitten, Sitting}

\* App: the files the user picks, the settings typed in, the lists found in
\* storage at start and in the sheet, and what the inference API answers.
Tabs == {"scan", "list", "settings"}
Files == {"photo1", "photo2"}
SheetUrl == <<"u","r","l">>
ApiKey   == <<"k","e","y">>
SettingKeys == {"sheetUrl", "visionApiKey"}
SettingValues(key) ==
  IF key = "sheetUrl" THEN {EmptyString, SheetUrl} ELSE {EmptyString, ApiKey}
StoredLists == { << >>, <<Pikachu>> }
SheetLists  == { << >>, <<Pikachu, Mewtwo>> }
AppAnswers ==
  { Answer("rejected", << >>, EmptyString),
    Answer("array", << >>, EmptyString),
    Answer("array", <<pikachu>>, EmptyString) }

\* findMissingPokemonInImage
MewSpaceTwo == <<"m","e","w"," ","t","w","o">>
Nonexistent == <<"n","o","n","e","x","i","s","t","e","n","t">>
BatchCards  == { Pikachu, Mewtwo, Mew, EmptyString }
FoundNames  == { pikachu, MewSpaceTwo, Nonexistent, <<"M","E","W">>,
                 Pikachu \o Space \o <<"V","M","A","X">> }
PinnedFound == << pikachu, MewSpaceTwo, Nonexistent >>
Texts == { <<"I"," ","s","e","e"," ">> \o pikachu \o <<","," ">> \o Mew,
           <<"n","o","n","e">> }
Answers ==
  {Answer(k, << >>, EmptyString) : k \in {"rejected", "httpError", "noText", "notArray"}}
  \cup {Answer("array", n, EmptyString) : n \in SeqsUpTo(FoundNames, MaxFound) \cup {PinnedFound}}
  \cup {Answer("unparsable", << >>, t) : t \in Texts}

(***************************************************************************)
(* The four programs: each draws its arguments in its initial state and   *)
(* then calls the function.                                                *)
(***************************************************************************)
NoAnswer == Answer("none", << >>, EmptyString)

NormIdle ==
  /\ name = EmptyString /\ baseName = EmptyString
  /\ normalized = EmptyString /\ normalizedBase = EmptyString
  /\ renormalized = EmptyString /\ normDone = {}
MatchIdle ==
  /\ detectedName = EmptyString
  /\ matchResult = MatchResult(Null, Zero) /\ matchDone = FALSE
ScanIdle ==
  /\ response = NoAnswer
  /\ scanOutcome = Settled(FALSE, << >>) /\ scanDone = FALSE
LevIdle ==
  /\ strA = EmptyString /\ strB = EmptyString
  /\ levResult = 0 /\ levDone = FALSE
\* the App as constructed, nothing stored
Mounted ==
  /\ activeTab = "scan"
  /\ capturedImage = Null /\ scanResults = << >>
  /\ isLoading = FALSE /\ loadingMessage = ""
  /\ statusMessage = Null
  /\ readers = {} /\ calls = << >>
  /\ resultsImage = Null /\ lastEvent = "mount"
AppIdle ==
  /\ Mounted
  /\ settings = Settings(EmptyString, EmptyString)
  /\ storage = Storage(settings, << >>)

InitNormalize ==
  /\ \/ name \in ShortNames \cup DigitNames /\ baseName = name
     \/ \E b \in WrittenBases, t \in WrittenTokens :
          /\ name = b \o Space \o t
          /\ baseName = toLowerCase(b)
  /\ normalized = EmptyString /\ normalizedBase = EmptyString
  /\ renormalized = EmptyString /\ normDone = {}
  /\ MatchIdle /\ missingList = << >> /\ ScanIdle /\ LevIdle /\ AppIdle

NormalizeName ==
  /\ "name" \notin normDone
  /\ normalized' = normalizeName(name)
  /\ normDone' = normDone \cup {"name"}
  /\ UNCHANGED <<name, baseName, normalizedBase, renormalized, matchVars, scanVars, levVars, appVars>>

NormalizeBase ==
  /\ "base" \notin normDone
  /\ normalizedBase' = normalizeName(baseName)
  /\ normDone' = normDone \cup {"base"}
  /\ UNCHANGED <<name, baseName, normalized, renormalized, matchVars, scanVars, levVars, appVars>>

\* normalizeName applied to its own result
NormalizeAgain ==
  /\ "name" \in normDone
  /\ "again" \notin normDone
  /\ renormalized' = normalizeName(normalized)
  /\ normDone' = normDone \cup {"again"}
  /\ UNCHANGED <<name, baseName, normalized, normalizedBase, matchVars, scanVars, levVars, appVars>>

NextNormalize == NormalizeName \/ NormalizeBase \/ NormalizeAgain
SpecNormalize == InitNormalize /\ [][NextNormalize]_vars

InitMatch ==
  /\ \E family \in MatchFamilies :
       /\ detectedName \in family.detected
       /\ missingList \in SeqsUpTo(family.cards, MaxList)
  /\ matchResult = MatchResult(Null, Zero) /\ matchDone = FALSE
  /\ NormIdle /\ ScanIdle /\ LevIdle /\ AppIdle

FindMatchingCard ==
  /\ ~matchDone
  /\ matchResult' = findMatchingCard(detectedName, missingList)
  /\ matchDone' = TRUE
  /\ UNCHANGED <<detectedName, missingList, normVars, scanVars, levVars, appVars>>

NextMatch == FindMatchingCard
SpecMatch == InitMatch /\ [][NextMatch]_vars

InitBatch ==
  /\ missingList \in SeqsUpTo(BatchCards, MaxList)
  /\ ScanIdle /\ NormIdle /\ MatchIdle /\ LevIdle /\ AppIdle

FindMissingPokemonInImage ==
  /\ ~scanDone
  /\ \E answer \in Answers :
       /\ response' = answer
       /\ scanOutcome' = findMissingPokemonInImage(answer, missingList)
  /\ scanDone' = TRUE
  /\ UNCHANGED <<missingList, normVars, detectedName, matchResult, matchDone,
                 levVars, appVars>>

NextBatch == FindMissingPokemonInImage
SpecBatch == InitBatch /\ [][NextBatch]_vars

InitLevenshtein ==
  /\ strA \in LevStrings /\ strB \in LevStrings
  /\ levResult = 0 /\ levDone = FALSE
  /\ NormIdle /\ MatchIdle /\ missingList = << >> /\ ScanIdle /\ AppIdle

LevenshteinDistance ==
  /\ ~levDone
  /\ levResult' = levenshteinDistance(strA, strB)
  /\ levDone' = TRUE
  /\ UNCHANGED <<strA, strB, normVars, matchVars, scanVars, appVars>>

NextLevenshtein == LevenshteinDistance
SpecLevenshtein == InitLevenshtein /\ [][NextLevenshtein]_vars

(***************************************************************************)
(* The App: one action per handler, per callback and per settling of an    *)
(* awaited promise.  A handler runs to its await in one step and resumes   *)
(* in another, after the promise has settled.                              *)
(***************************************************************************)
InitApp ==
  /\ Mounted
  /\ settings \in {Settings(u, k) : u \in SettingValues("sheetUrl"),
                                    k \in SettingValues("visionApiKey")}
  /\ missingList \in StoredLists
  /\ storage = Storage(settings, missingList)
  /\ NormIdle /\ MatchIdle /\ ScanIdle /\ LevIdle

SetActiveTab ==
  /\ \E tab \in Tabs :
       /\ tab # activeTab
       /\ activeTab' = tab
  /\ lastEvent' = "setActiveTab"
  /\ UNCHANGED <<settings, missingList, capturedImage, scanResults, isLoading,
                 loadingMessage, statusMessage, storage, readers, calls,
                 resultsImage, functionVars>>

\* with the effect that saves the settings
HandleSettingChange ==
  /\ activeTab = "settings"
  /\ \E key \in SettingKeys :
       \E value \in SettingValues(key) :
         /\ value # settings[key]
         /\ settings' = [settings EXCEPT ![key] = value]
  /\ storage' = Storage(settings', missingList)
  /\ lastEvent' = "handleSettingChange"
  /\ UNCHANGED <<activeTab, missingList, capturedImage, scanResults, isLoading,
                 loadingMessage, statusMessage, readers, calls,
                 resultsImage, functionVars>>

\* a file has been picked: its reader is started
HandleFileSelect ==
  /\ activeTab = "scan"
  /\ \E file \in Files : readers' = readers \cup {file}
  /\ lastEvent' = "handleFileSelect"
  /\ UNCHANGED <<activeTab, settings, missingList, capturedImage, scanResults,
                 isLoading, loadingMessage, statusMessage, storage, calls,
                 resultsImage, functionVars>>

ReaderOnLoad ==
  /\ \E file \in readers :
       /\ capturedImage' = DataUrl(file)
       /\ readers' = readers \ {file}
  /\ scanResults' = << >>
  /\ resultsImage' = Null
  /\ lastEvent' = "reader.onload"
  /\ UNCHANGED <<activeTab, settings, missingList, isLoading, loadingMessage,
                 statusMessage, storage, calls, functionVars>>

\* handleScan up to its await
HandleScan ==
  /\ activeTab = "scan"
  /\ ~scanButtonDisabled(capturedImage, isLoading)
  /\ LET refusal == scanRefusal(capturedImage, settings.visionApiKey,
                                missingList, activeTab)
     IN  IF refusal.refused
         THEN /\ statusMessage' = StatusMessage("error", refusal.text, 0)
              /\ activeTab' = refusal.tab
              /\ UNCHANGED <<isLoading, loadingMessage, calls>>
         ELSE /\ isLoading' = TRUE
              /\ loadingMessage' = "Analyzing image with Gemini AI..."
              /\ statusMessage' = Null
              /\ calls' = Append(calls, Call("scan", capturedImage, missingList,
                                             settings.visionApiKey))
              /\ UNCHANGED activeTab
  /\ lastEvent' = "handleScan"
  /\ UNCHANGED <<settings, missingList, capturedImage, scanResults, storage,
                 readers, resultsImage, functionVars>>

\* the promise of findMissingPokemonInImage settles
InferenceSettles ==
  /\ \E k \in 1..Len(calls) :
       /\ calls[k].kind = "scan"
       /\ calls[k].outcome = Null
       /\ \E answer \in AppAnswers :
            calls' = [calls EXCEPT ![k].outcome =
                        <<findMissingPokemonInImage(answer, calls[k].list)>>]
  /\ lastEvent' = "findMissingPokemonInImage"
  /\ UNCHANGED <<activeTab, settings, missingList, capturedImage, scanResults,
                 isLoading, loadingMessage, statusMessage, storage, readers,
                 resultsImage, functionVars>>

\* handleScan after its await: the rest of try, or catch, and finally
HandleScanResumes ==
  /\ \E k \in 1..Len(calls) :
       /\ calls[k].kind = "scan"
       /\ calls[k].outcome # Null
       /\ LET settled == calls[k].outcome[1]
              results == [n \in 1..Len(settled.value) |-> ScanResult(settled.value[n])]
          IN  /\ IF settled.threw
                 THEN /\ statusMessage' = StatusMessage("error", "Failed to scan image", 0)
                      /\ UNCHANGED <<scanResults, resultsImage>>
                 ELSE /\ scanResults' = results
                      /\ resultsImage' = calls[k].image
                      /\ statusMessage' =
                           IF Len(results) = 0
                           THEN StatusMessage("success",
                                  "No missing Pokemon found in this image", 0)
                           ELSE StatusMessage("success",
                                  "Found Pokemon from your missing list!", Len(results))
              /\ isLoading' = loadingAfterSettle(settled.threw, isLoading)
              /\ loadingMessage' = ""
       /\ calls' = RemoveAt(calls, k)
  /\ lastEvent' = "handleScan resumed"
  /\ UNCHANGED <<activeTab, settings, missingList, capturedImage, storage,
                 readers, functionVars>>

\* handleLoadSheet up to its await
HandleLoadSheet ==
  /\ activeTab = "settings"
  /\ ~loadButtonDisabled(settings.sheetUrl, isLoading)
  /\ IF settings.sheetUrl = EmptyString
     THEN /\ statusMessage' = StatusMessage("error", "Please enter a Google Sheet URL", 0)
          /\ UNCHANGED <<isLoading, loadingMessage, calls>>
     ELSE /\ isLoading' = TRUE
          /\ loadingMessage' = "Loading missing list from Google Sheets..."
          /\ statusMessage' = Null
          /\ calls' = Append(calls, Call("load", Null, << >>, settings.sheetUrl))
  /\ lastEvent' = "handleLoadSheet"
  /\ UNCHANGED <<activeTab, settings, missingList, capturedImage, scanResults,
                 storage, readers, resultsImage, functionVars>>

\* the promise of fetchSheetData settles: rejected (the URL is not a sheet's,
\* the request fails, the status is not ok) or fulfilled with the cards
FetchSheetData ==
  /\ \E k \in 1..Len(calls) :
       /\ calls[k].kind = "load"
       /\ calls[k].outcome = Null
       /\ \E settled \in {Settled(TRUE, << >>)}
                          \cup {Settled(FALSE, cards) : cards \in SheetLists} :
            calls' = [calls EXCEPT ![k].outcome = <<settled>>]
  /\ lastEvent' = "fetchSheetData"
  /\ UNCHANGED <<activeTab, settings, missingList, capturedImage, scanResults,
                 isLoading, loadingMessage, statusMessage, storage, readers,
                 resultsImage, functionVars>>

\* handleLoadSheet after its await, with the effect that saves the list
HandleLoadSheetResumes ==
  /\ \E k \in 1..Len(calls) :
       /\ calls[k].kind = "load"
       /\ calls[k].outcome # Null
       /\ LET settled == calls[k].outcome[1]
          IN  /\ IF settled.threw
                 THEN /\ statusMessage' = StatusMessage("error", "Failed to load sheet", 0)
                      /\ UNCHANGED missingList
                 ELSE /\ missingList' = settled.value
                      /\ statusMessage' = StatusMessage("success",
                                            "Loaded cards from sheet", Len(settled.value))
              /\ isLoading' = loadingAfterSettle(settled.threw, isLoading)
              /\ loadingMessage' = ""
       /\ calls' = RemoveAt(calls, k)
  /\ storage' = Storage(settings, missingList')
  /\ lastEvent' = "handleLoadSheet resumed"
  /\ UNCHANGED <<activeTab, settings, capturedImage, scanResults, readers,
                 resultsImage, functionVars>>

NextApp ==
  \/ SetActiveTab
  \/ HandleSettingChange
  \/ HandleFileSelect
  \/ ReaderOnLoad
  \/ HandleScan
  \/ InferenceSettles
  \/ HandleScanResumes
  \/ HandleLoadSheet
  \/ FetchSheetData
  \/ HandleLoadSheetResumes

SpecApp == InitApp /\ [][NextApp]_vars

\* A handler that awaits a settled promise resumes: its continuation is a
\* queued microtask, and the event loop runs every queued microtask.
SpecAppFair ==
  /\ SpecApp
  /\ WF_vars(HandleScanResumes)
  /\ WF_vars(HandleLoadSheetResumes)

\* The four functions share no state and their calls interleave freely; the
\* App runs on its own.
Init == InitNormalize \/ InitMatch \/ InitBatch \/ InitLevenshtein \/ InitApp
Next == NextNormalize \/ NextMatch \/ NextBatch \/ NextLevenshtein \/ NextApp
Spec == Init /\ [][Next]_vars

(***************************************************************************)
(* Claims about normalizeName (checked under SpecNormalize)                *)
(***************************************************************************)
\* b contains one of the qualifier tokens
containsQualifier(b) ==
  \E t \in QualifierTokens : includes(toLowerCase(b), t)

\* name is baseName, a space and the token t (in any letter case)
qualifiedBy(t) == toLowerCase(name) = toLowerCase(baseName) \o Space \o t

\* C1: for every qualifier token t of the fixed set and every base name b
\* that contains none of the tokens, normalizeName(b + " " + t) equals
\* normalizeName(b); in particular normalizeName("Pikachu VMAX") equals
\* normalizeName("pikachu").
C1_QualifierSuffixStripped ==
  ( /\ {"name", "base"} \subseteq normDone
    /\ ~containsQualifier(baseName)
    /\ \E t \in QualifierTokens : qualifiedBy(t) )
  => normalized = normalizedBase

\* What the code does for C1: the alternation takes "v" before it tries
\* "vmax", "vstar" and "v-union", so of these three only the "v" is removed;
\* every other token of the set is stripped.
VShadowedTokens ==
  { <<"v","m","a","x">>, <<"v","s","t","a","r">>, <<"v","-","u","n","i","o","n">> }

C1_StrippedUnlessShadowedByV ==
  \A t \in QualifierTokens :
    ( /\ {"name", "base"} \subseteq normDone
      /\ ~containsQualifier(baseName)
      /\ qualifiedBy(t) )
    => IF t \in VShadowedTokens
       THEN normalized = normalizedBase \o removeSpecialCharacters(Tail(t))
       ELSE normalized = normalizedBase

\* C2: normalizeName is idempotent: normalizeName(normalizeName(s)) equals
\* normalizeName(s) for every input s, also when removing a token or
\* substituting a confusable digit produces a new qualifier token.
C2_Idempotent ==
  "again" \in normDone => renormalized = normalized

\* C13: for every input, the output of normalizeName consists only of
\* lowercase ASCII letters and digits and contains none of 0, 1, 5 (they are
\* replaced by o, l, s); the empty input yields the empty output.
OutputCharacters ==
  { "a","b","c","d","e","f","g","h","i","j","k","l","m",
    "n","o","p","q","r","s","t","u","v","w","x","y","z",
    "2","3","4","6","7","8","9" }

wellFormedOutput(input, output) ==
  /\ \A k \in 1..Len(output) : output[k] \in OutputCharacters
  /\ input = EmptyString => output = EmptyString

C13_OutputLowercaseAlnumNoConfusableDigits ==
  /\ "name"  \in normDone => wellFormedOutput(name, normalized)
  /\ "base"  \in normDone => wellFormedOutput(baseName, normalizedBase)
  /\ "again" \in normDone => wellFormedOutput(normalized, renormalized)

\* An input with a 5, a space and an uppercase letter: s and x are left.
C13_Witness ==
  /\ "name" \in normDone
  /\ name = <<"5", " ", "X">>
  /\ normalized = <<"s", "x">>

\* 1 and 0 become l and o.
C13_WitnessOneZero ==
  /\ "name" \in normDone
  /\ name = <<"a","1","0","1","a","n">>
  /\ normalized = <<"a","l","o","l","a","n">>

\* The empty input.
C13_WitnessEmpty ==
  "name" \in normDone /\ name = EmptyString /\ normalized = EmptyString

(***************************************************************************)
(* Claims about findMatchingCard (checked under SpecMatch)                 *)
(***************************************************************************)
Indices     == 1..Len(missingList)
detectedKey == normalizeName(detectedName)
cardKey(i)  == normalizeName(missingList[i])
shorter(i)  == Min2(Len(detectedKey), Len(cardKey(i)))
longer(i)   == Max2(Len(detectedKey), Len(cardKey(i)))
Least(S)    == CHOOSE i \in S : \A j \in S : i <= j

\* the returned confidence is the number n / d
confidenceIs(n, d) ==
  /\ matchResult.confidence.den # 0
  /\ matchResult.confidence.num * d = n * matchResult.confidence.den

\* entries whose normalized form equals the normalized detected name
ExactHits == {i \in Indices : cardKey(i) = detectedKey}

\* one normalized form contains the other
contained(i) ==
  includes(cardKey(i), detectedKey) \/ includes(detectedKey, cardKey(i))

\* ... with min(len) / max(len) > 0.7
ContainmentHits == {i \in Indices : contained(i) /\ 10 * shorter(i) > 7 * longer(i)}

\* similarity 1 - distance / max(len), as the fraction closeness(i) / longer(i)
closeness(i) == longer(i) - levenshteinDistance(detectedKey, cardKey(i))

\* ... greater than 0.75
FuzzyHits == {i \in Indices : 4 * closeness(i) > 3 * longer(i)}

\* similarity of entry i is less than (at most) that of entry j
lessSimilar(i, j)   == closeness(i) * longer(j) < closeness(j) * longer(i)
atMostSimilar(i, j) == closeness(i) * longer(j) <= closeness(j) * longer(i)

\* C3: exact tier: if normalizeName(detected) equals normalizeName(c) for at
\* least one entry c, the result is the first such entry in list order with
\* confidence exactly 1.0.
C3_ExactFirstInListOrder ==
  (matchDone /\ ExactHits # {})
  => /\ matchResult.match = Card(missingList[Least(ExactHits)])
     /\ confidenceIs(1, 1)

\* Two different entries normalize to the detected key; the earlier is returned.
C3_Witness ==
  /\ matchDone
  /\ \E i, j \in ExactHits :
       /\ i < j
       /\ missingList[i] # missingList[j]
       /\ matchResult.match = Card(missingList[i])
  /\ confidenceIs(1, 1)

\* C4: the match returned is either null or an element of the list,
\* unchanged (never its normalized form, never the detected string).
C4_MatchVerbatimFromList ==
  matchDone
  => \/ matchResult.match = Null
     \/ \E i \in Indices : matchResult.match = Card(missingList[i])

\* A match that differs from its own normalized form and from the detected string.
C4_Witness ==
  /\ matchDone
  /\ matchResult.match # Null
  /\ \E i \in Indices :
       /\ matchResult.match = Card(missingList[i])
       /\ missingList[i] # cardKey(i)
       /\ missingList[i] # detectedName

\* C7: the confidence is in [0, 1]; match is null if and only if the
\* confidence is 0; when no tier succeeds (also for an empty list) the
\* result is exactly {match: null, confidence: 0}.
C7_NullIffZeroConfidence ==
  matchDone
  => /\ matchResult.confidence.den > 0
     /\ 0 <= matchResult.confidence.num
     /\ matchResult.confidence.num <= matchResult.confidence.den
     /\ (matchResult.match = Null <=> matchResult.confidence.num = 0)
     /\ (ExactHits = {} /\ ContainmentHits = {} /\ FuzzyHits = {})
        => (matchResult.match = Null /\ confidenceIs(0, 1))

\* A list with entries, none of which any tier accepts.
C7_Witness ==
  /\ matchDone
  /\ missingList # << >>
  /\ ExactHits = {} /\ ContainmentHits = {} /\ FuzzyHits = {}
  /\ matchResult.match = Null
  /\ confidenceIs(0, 1)

\* The same for the empty list.
C7_WitnessEmptyList ==
  matchDone /\ missingList = << >> /\ matchResult.match = Null /\ confidenceIs(0, 1)

\* C8: the tiers are applied in strict priority over the whole list: an
\* exact match anywhere wins over a containment match on an earlier entry,
\* and a qualifying containment match anywhere wins over any fuzzy match,
\* even one with a higher similarity on an earlier entry.
C8_TiersInStrictPriority ==
  matchDone
  => /\ ExactHits # {}
        => /\ \E i \in ExactHits : matchResult.match = Card(missingList[i])
           /\ confidenceIs(1, 1)
     /\ (ExactHits = {} /\ ContainmentHits # {})
        => \E i \in ContainmentHits :
             /\ matchResult.match = Card(missingList[i])
             /\ confidenceIs(shorter(i), longer(i))

\* An exact match is returned although an earlier entry qualifies by containment.
C8_Witness ==
  /\ matchDone
  /\ \E i, j \in Indices :
       /\ i < j
       /\ i \in ContainmentHits \ ExactHits
       /\ j \in ExactHits
       /\ missingList[i] # missingList[j]
       /\ matchResult.match = Card(missingList[j])

\* A containment match is returned although an earlier entry, not a
\* containment match, has a higher edit similarity.
C8_WitnessOverFuzzy ==
  /\ matchDone
  /\ ExactHits = {}
  /\ \E i, j \in Indices :
       /\ i < j
       /\ i \in FuzzyHits \ ContainmentHits
       /\ j \in ContainmentHits
       /\ shorter(j) * longer(i) < closeness(i) * longer(j)
       /\ matchResult.match = Card(missingList[j])
       /\ confidenceIs(shorter(j), longer(j))

\* C9: containment tier: when no exact match exists, the result is the first
\* entry in list order whose normalized form contains or is contained in the
\* normalized detected name with min(len)/max(len) > 0.7, with that ratio as
\* confidence; a ratio of exactly 0.7 does not qualify, and a later entry
\* with a higher ratio is not preferred.
C9_ContainmentFirstAboveThreshold ==
  (matchDone /\ ExactHits = {})
  => /\ ContainmentHits # {}
        => /\ matchResult.match = Card(missingList[Least(ContainmentHits)])
           /\ confidenceIs(shorter(Least(ContainmentHits)), longer(Least(ContainmentHits)))
     /\ \A i \in Indices :
          (contained(i) /\ 10 * shorter(i) = 7 * longer(i))
          => matchResult.match # Card(missingList[i])

\* An entry with ratio exactly 0.7 is passed over for a later qualifying one.
C9_Witness ==
  /\ matchDone
  /\ ExactHits = {}
  /\ \E i, j \in Indices :
       /\ i < j
       /\ contained(i) /\ 10 * shorter(i) = 7 * longer(i)
       /\ j \in ContainmentHits
       /\ \A k \in ContainmentHits : j <= k
       /\ matchResult.match = Card(missingList[j])
       /\ confidenceIs(shorter(j), longer(j))

\* The first qualifying entry is returned although a later one has a higher ratio.
C9_WitnessEarlierWins ==
  /\ matchDone
  /\ ExactHits = {}
  /\ \E i, j \in ContainmentHits :
       /\ i < j
       /\ shorter(i) * longer(j) < shorter(j) * longer(i)
       /\ matchResult.match = Card(missingList[i])

\* C10: fuzzy tier: when neither earlier tier succeeds, the result is the
\* entry with the highest similarity 1 - distance/max(len) over the whole
\* list, provided that similarity is > 0.75 (exactly 0.75 does not qualify);
\* among entries with the same highest similarity the earliest is returned.
C10_FuzzyBestAboveThreshold ==
  (matchDone /\ ExactHits = {} /\ ContainmentHits = {})
  => IF FuzzyHits = {}
     THEN matchResult.match = Null /\ confidenceIs(0, 1)
     ELSE \E i \in FuzzyHits :
            /\ \A j \in Indices : atMostSimilar(j, i)
            /\ \A j \in Indices : j < i => lessSimilar(j, i)
            /\ matchResult.match = Card(missingList[i])
            /\ confidenceIs(closeness(i), longer(i))

\* Two different entries share the highest similarity; the earlier is returned.
C10_Witness ==
  /\ matchDone
  /\ ExactHits = {} /\ ContainmentHits = {}
  /\ \E i, j \in FuzzyHits :
       /\ i < j
       /\ missingList[i] # missingList[j]
       /\ atMostSimilar(i, j) /\ atMostSimilar(j, i)
       /\ matchResult.match = Card(missingList[i])

\* An entry with similarity exactly 0.75 is the best there is, and is not matched.
C10_WitnessAtThreshold ==
  /\ matchDone
  /\ ExactHits = {} /\ ContainmentHits = {}
  /\ \E i \in Indices :
       /\ 4 * closeness(i) = 3 * longer(i)
       /\ \A j \in Indices : atMostSimilar(j, i)
  /\ matchResult.match = Null

\* A later entry with a higher similarity replaces an earlier qualifying one.
C10_WitnessLaterHigher ==
  /\ matchDone
  /\ ExactHits = {} /\ ContainmentHits = {}
  /\ \E i, j \in FuzzyHits :
       /\ i < j
       /\ lessSimilar(i, j)
       /\ matchResult.match = Card(missingList[j])

(***************************************************************************)
(* Claims about the batch reconciliation of findMissingPokemonInImage      *)
(* (checked under SpecBatch)                                               *)
(***************************************************************************)
\* the array the API answered and the array returned
detectedBatch == response.names
reconciled    == scanOutcome.value

\* case-insensitively equal, or one contains the other
corresponds(canonical, detected) ==
  \/ toLowerCase(canonical) = toLowerCase(detected)
  \/ includes(toLowerCase(canonical), toLowerCase(detected))
  \/ includes(toLowerCase(detected), toLowerCase(canonical))

canonicalFor(detected) == {i \in Indices : corresponds(missingList[i], detected)}

\* positions of the detected names that some canonical entry corresponds to
Kept == {i \in 1..Len(detectedBatch) : canonicalFor(detectedBatch[i]) # {}}

\* the k-th kept position, in input order
nthKept(k) == CHOOSE i \in Kept : Cardinality({j \in Kept : j <= i}) = k

arrayReconciled == scanDone /\ response.kind = "array"

\* C5: every kept detected name is replaced by the first canonical entry (in
\* list order) that corresponds to it; hence every element of the output is
\* a verbatim element of the canonical list, for every canonical list,
\* including one that holds an empty string.
C5_OutputsAreCanonical ==
  arrayReconciled
  => /\ Len(reconciled) = Cardinality(Kept)
     /\ \A k \in 1..Len(reconciled) :
          /\ k <= Cardinality(Kept)
             => reconciled[k] = missingList[Least(canonicalFor(detectedBatch[nthKept(k)]))]
          /\ \E i \in Indices : reconciled[k] = missingList[i]

\* What the code does for C5: match || name falls back to the detected name
\* when the first corresponding entry is the empty string.
C5_CanonicalUnlessEmptyEntry ==
  arrayReconciled
  => /\ Len(reconciled) = Cardinality(Kept)
     /\ \A k \in 1..Len(reconciled) :
          LET detected == detectedBatch[nthKept(k)]
              first    == missingList[Least(canonicalFor(detected))]
          IN  reconciled[k] = IF first = EmptyString THEN detected ELSE first

\* C6: a detected name is kept if and only if some canonical entry is
\* case-insensitively equal to it, contains it, or is contained in it (no
\* normalization: "mew two" does not match "Mewtwo"); the output follows the
\* order of the detected input, a name listed twice is output twice, and
\* reconcileBatch(["pikachu", "mew two", "nonexistent"], ["Pikachu", "Mewtwo"])
\* is ["Pikachu"].
C6_KeptIffCorresponds ==
  arrayReconciled
  => /\ ~scanOutcome.threw
     /\ Len(reconciled) = Cardinality(Kept)
     /\ \A k \in 1..Len(reconciled) :
          k <= Cardinality(Kept) => corresponds(reconciled[k], detectedBatch[nthKept(k)])
     /\ (detectedBatch = PinnedFound /\ missingList = <<Pikachu, Mewtwo>>)
        => reconciled = <<Pikachu>>

\* The pinned example: one name kept, one dropped for its space, one unknown.
C6_Witness ==
  /\ arrayReconciled
  /\ detectedBatch = PinnedFound
  /\ missingList = <<Pikachu, Mewtwo>>
  /\ Kept = {1}
  /\ reconciled = <<Pikachu>>

\* A name listed twice is output twice.
C6_WitnessListedTwice ==
  /\ arrayReconciled
  /\ Len(detectedBatch) = 2
  /\ detectedBatch[1] = detectedBatch[2]
  /\ Len(reconciled) = 2
  /\ reconciled[1] = reconciled[2]

\* C12: findMatchingCard never divides by a zero length: when the detected
\* name and an entry both normalize to the empty string, the call returns at
\* the exact tier (the first such entry, confidence 1.0) and evaluates neither
\* min/max nor distance/max with max(len) = 0.
EmptyKeyHits == {i \in Indices : cardKey(i) = EmptyString}

C12_NoDivisionByZeroLength ==
  matchDone
  => /\ 0 \notin divisors(detectedName, missingList)
     /\ matchResult.confidence.den # 0
     /\ (detectedKey = EmptyString /\ EmptyKeyHits # {})
        => /\ matchResult = MatchResult(Card(missingList[Least(EmptyKeyHits)]), One)
           /\ divisors(detectedName, missingList) = {}

\* The detected name and the second entry normalize to the empty string; the
\* first entry does not.
C12_Witness ==
  /\ matchDone
  /\ detectedKey = EmptyString
  /\ EmptyKeyHits = {2}
  /\ matchResult = MatchResult(Card(missingList[2]), One)

\* An empty detected name against entries that do not normalize to the empty
\* string: the loops divide, by the entries' lengths.
C12_WitnessDivides ==
  /\ matchDone
  /\ detectedKey = EmptyString
  /\ missingList # << >>
  /\ EmptyKeyHits = {}
  /\ divisors(detectedName, missingList) # {}
  /\ matchResult = MatchResult(Null, Zero)

\* C15: an entry whose normalized form contains, or is contained in, the
\* normalized detected name with length ratio at most 0.7 is matched by no
\* tier: its fuzzy similarity equals that ratio and so does not exceed 0.75;
\* findMatchingCard("Char", ["Charizard"]) is {match: null, confidence: 0}.
Char == <<"C","h","a","r">>
LooseContainments ==
  {i \in Indices : contained(i) /\ longer(i) > 0 /\ 10 * shorter(i) <= 7 * longer(i)}

C15_LooseContainmentMatchesNoTier ==
  matchDone
  => /\ \A i \in LooseContainments :
          /\ closeness(i) = shorter(i)
          /\ 4 * closeness(i) <= 3 * longer(i)
          /\ matchResult.match # Card(missingList[i])
     /\ (detectedName = Char /\ missingList = <<Charizard>>)
        => matchResult = MatchResult(Null, Zero)

\* The documented example: ratio 4 / 9.
C15_Witness ==
  /\ matchDone
  /\ detectedName = Char
  /\ missingList = <<Charizard>>
  /\ LooseContainments = {1}
  /\ matchResult = MatchResult(Null, Zero)

\* A ratio of exactly 0.7 (7 / 10), next to an entry that is matched.
C15_WitnessAtThreshold ==
  /\ matchDone
  /\ \E i \in LooseContainments : 10 * shorter(i) = 7 * longer(i)
  /\ matchResult.match # Null

(***************************************************************************)
(* Claims about levenshteinDistance (checked under SpecLevenshtein)        *)
(***************************************************************************)
\* The unweighted edit distance by its defining recurrence: remove the first
\* character of s, insert the first character of t, or substitute one for
\* the other, each at cost 1 (substituting a character for itself costs 0).
RECURSIVE editDistance(_, _)
editDistance(s, t) ==
  IF s = EmptyString THEN Len(t)
  ELSE IF t = EmptyString THEN Len(s)
  ELSE Min3(editDistance(Tail(s), t) + 1,
            editDistance(s, Tail(t)) + 1,
            editDistance(Tail(s), Tail(t)) + (IF Head(s) = Head(t) THEN 0 ELSE 1))

\* C11: levenshteinDistance(a, b) is the classic unweighted edit distance
\* (insert, delete, substitute each cost 1) for all strings a, b: 0 when
\* a = b, max(len(a), len(b)) when one string is empty, and 3 for "kitten"
\* and "sitting".
C11_ClassicEditDistance ==
  levDone
  => /\ levResult = editDistance(strA, strB)
     /\ strA = strB => levResult = 0
     /\ (strA = EmptyString \/ strB = EmptyString)
        => levResult = Max2(Len(strA), Len(strB))
     /\ (strA = Kitten /\ strB = Sitting) => levResult = 3

\* The documented example has been computed.
C11_Witness ==
  levDone /\ strA = Kitten /\ strB = Sitting /\ levResult = 3

\* One argument empty, the other not.
C11_WitnessOneEmpty ==
  levDone /\ strA = EmptyString /\ Len(strB) = MaxLevLen /\ levResult = MaxLevLen

\* Two different strings of the same length, one substitution apart.
C11_WitnessSubstitution ==
  levDone /\ strA = <<"a","b">> /\ strB = <<"b","b">> /\ levResult = 1

(***************************************************************************)
(* Claims about the App (checked under SpecApp, C18 under SpecAppFair)     *)
(***************************************************************************)
\* the step just taken appended a call
callStarted == Len(calls') > Len(calls)
newCall == calls'[Len(calls')]

\* C14: each scan action makes at most one inference call and each load
\* action at most one sheet fetch, no step but the start of such an action
\* makes a call (no retry), and while a call is in flight (isLoading) no
\* scan or load is started.
C14_OneCallPerActionNoneWhileLoading ==
  /\ [](Len(calls) <= 1 /\ (isLoading <=> calls # << >>))
  /\ [][ /\ Len(calls') <= Len(calls) + 1
         /\ callStarted
            => /\ calls' = Append(calls, newCall)
               /\ newCall.outcome = Null
               /\ \/ lastEvent' = "handleScan" /\ newCall.kind = "scan"
                  \/ lastEvent' = "handleLoadSheet" /\ newCall.kind = "load"
         /\ isLoading => lastEvent' \notin {"handleScan", "handleLoadSheet"}
       ]_vars

\* An inference call is in flight and the scan button would be enabled but
\* for isLoading.
C14_Witness ==
  /\ isLoading
  /\ activeTab = "scan"
  /\ capturedImage # Null
  /\ Len(calls) = 1
  /\ calls[1].kind = "scan"

\* A load in flight, after a scan has completed with results.
C14_WitnessLoadAfterScan ==
  /\ isLoading
  /\ lastEvent = "handleLoadSheet"
  /\ scanResults # << >>
  /\ Len(calls) = 1
  /\ calls[1].kind = "load"

\* C16: under every interleaving of image selection and scan completion,
\* non-empty scanResults belong to the currently captured image.
C16_ResultsBelongToCapturedImage ==
  scanResults # << >> => resultsImage = capturedImage

\* C17: handleScan calls the inference collaborator only when an image is
\* captured, the API key is non-empty and the missing list is non-empty;
\* otherwise it sets an error status message and leaves isLoading and
\* scanResults unchanged.
readyToScan ==
  /\ capturedImage # Null
  /\ settings.visionApiKey # EmptyString
  /\ missingList # << >>

C17_InferenceOnlyWhenReady ==
  [][ lastEvent' = "handleScan"
      => /\ callStarted => readyToScan
         /\ ~readyToScan
            => /\ calls' = calls
               /\ statusMessage' # Null
               /\ statusMessage'[1].type = "error"
               /\ isLoading' = isLoading
               /\ scanResults' = scanResults
    ]_vars

\* handleScan has refused for want of an API key.
C17_Witness ==
  /\ lastEvent = "handleScan"
  /\ capturedImage # Null
  /\ settings.visionApiKey = EmptyString
  /\ statusMessage = StatusMessage("error", "Please enter your Gemini API key in Settings", 0)
  /\ ~isLoading
  /\ calls = << >>

\* handleScan has refused for want of a missing list, and earlier results
\* are still shown.
C17_WitnessEmptyList ==
  /\ lastEvent = "handleScan"
  /\ missingList = << >>
  /\ scanResults # << >>
  /\ statusMessage # Null
  /\ statusMessage[1].type = "error"
  /\ ~isLoading

\* handleScan has made the call.
C17_WitnessCalled ==
  /\ lastEvent = "handleScan"
  /\ readyToScan
  /\ isLoading
  /\ calls = <<Call("scan", capturedImage, missingList, settings.visionApiKey)>>

\* C18: every scan or load that has set isLoading resets it once its
\* collaborator call has completed, successfully or not; on failure an error
\* status is shown and the missing list (for a load) or scanResults (for a
\* scan) are left as they were.
callCompleted == \E k \in 1..Len(calls) : calls[k].outcome # Null
\* the step just taken resumed the handler that awaited call k
resumed(k) ==
  /\ lastEvent' \in {"handleScan resumed", "handleLoadSheet resumed"}
  /\ calls[k].outcome # Null
  /\ calls' = RemoveAt(calls, k)

C18_LoadingEndsWhenCallCompletes ==
  /\ (isLoading /\ callCompleted) ~> ~isLoading
  /\ [][ \A k \in 1..Len(calls) :
           resumed(k)
           => /\ isLoading /\ ~isLoading'
              /\ calls[k].outcome[1].threw
                 => /\ statusMessage' # Null
                    /\ statusMessage'[1].type = "error"
                    /\ calls[k].kind = "load" => missingList' = missingList
                    /\ calls[k].kind = "scan" => scanResults' = scanResults
       ]_vars

\* A scan has failed: loading is over, the error is shown, and the results of
\* the scan before it are still there.
C18_Witness ==
  /\ lastEvent = "handleScan resumed"
  /\ ~isLoading
  /\ statusMessage = StatusMessage("error", "Failed to scan image", 0)
  /\ scanResults # << >>

\* A load has failed: loading is over, the error is shown, and the list is
\* still there.
C18_WitnessLoadFailed ==
  /\ lastEvent = "handleLoadSheet resumed"
  /\ ~isLoading
  /\ statusMessage = StatusMessage("error", "Failed to load sheet", 0)
  /\ missingList # << >>

\* A load has succeeded and replaced the list.
C18_WitnessLoaded ==
  /\ lastEvent = "handleLoadSheet resumed"
  /\ ~isLoading
  /\ statusMessage = StatusMessage("success", "Loaded cards from sheet", 2)
  /\ missingList = <<Pikachu, Mewtwo>>

====
